---- MODULE Spec2Model ----
(***************************************************************************)
(* Model of the Telegram bot of src/main.py: the per-user session          *)
(* (context.user_data), the admin reply map, the known-user set, the image *)
(* files of the per-user temp directory, and one action per handler that   *)
(* reads or writes them.                                                   *)
(*                                                                         *)
(* Updates are handled one at a time (the application is built with the    *)
(* default ApplicationBuilder of line 308), so a handler is one action.    *)
(* Every awaited transport or file call that can raise is an input of the  *)
(* action (its outcome); an exception leaves the handler at that line.     *)
(* A reply_text that is the last statement of a handler is modelled as     *)
(* delivered: its failure changes no state of the program.                 *)
(*                                                                         *)
(* Spec is the bot under photos, commands and texts; SpecRelay is the bot  *)
(* under commands and texts with /broadcast; SpecReadpdf is the document   *)
(* handler; SpecSched is the dispatcher that starts and ends the handlers. *)
(***************************************************************************)
EXTENDS Integers, Sequences, FiniteSets, TLC

\* ---------------------------------------------------------------- bounds
\* image files that fit in TEMP_DIR, over all user directories
MaxFiles == 2
\* entries of all the users' image collections together
MaxImages == 2
\* the last message identifier the admin chat hands out
MaxMsgId == 2
\* how far from the 3000 characters the extracted texts of the model go
Margin == 20
\* updates that arrive in a run of the dispatcher
MaxUpdates == 3

\* ------------------------------------------------------------- constants
ADMIN_ID == 1
NoReply == 0
NoUser == 0
NoStyle == "none"

OtherUser == 2
Users == {ADMIN_ID, OtherUser}
\* message 1 of every chat is the bot's greeting; forwards come after it
FirstMsgId == 1
MsgIds == 1..MaxMsgId
Styles == {"disney", "pixar", "anime"}
StyleArgs == {"", "Anime", "ghibli"}

VARIABLES user_data, admin_reply_map, known_users, files, nextMsgId, last, sched

vars == <<user_data, admin_reply_map, known_users, files, nextMsgId, last, sched>>

\* what the handlers read and write
program == <<user_data, admin_reply_map, known_users, files, nextMsgId, last>>

\* --------------------------------------------------------------- helpers
\* context.user_data of a user that has no key set
EmptySession == [style |-> NoStyle, images |-> <<>>, awaiting_admin_msg |-> FALSE]

\* a message the bot hands to the transport; ok = the transport delivered it
Send(to, what, ok) == [to |-> to, what |-> what, ok |-> ok]

\* the record of the update handled last
Idle ==
    [handler |-> "none", shape |-> "none", from |-> NoUser, reply_to |-> NoReply,
     paths |-> <<>>, out |-> {}, raised |-> FALSE, converted |-> FALSE,
     sent |-> 0, tries |-> 0, text_len |-> 0]

Handled(handler, shape, u, reply_to, paths, out, raised, converted) ==
    [handler |-> handler, shape |-> shape, from |-> u, reply_to |-> reply_to,
     paths |-> paths, out |-> out, raised |-> raised, converted |-> converted,
     sent |-> 0, tries |-> 0, text_len |-> 0]

\* os.path.join(user_dir, f"{name}_{n}.jpg")
Path(u, name, n) == [dir |-> u, name |-> name, n |-> n]

\* the entries of os.listdir(user_dir) that end in .jpg or .png
ImageFiles(dir) == {f \in dir : f.name \in {"img", "styl"}}

RECURSIVE SumOver(_, _)
SumOver(f, S) ==
    IF S = {} THEN 0
    ELSE LET x == CHOOSE y \in S : TRUE IN f[x] + SumOver(f, S \ {x})

TotalFiles == SumOver([u \in Users |-> Cardinality(files[u])], Users)
TotalImages == SumOver([u \in Users |-> Len(user_data[u].images)], Users)

\* parts[1].lower()
Lower(arg) ==
    CASE arg = "PIXAR" -> "pixar"
      [] arg = "Anime" -> "anime"
      [] OTHER -> arg

\* reply targets an update can carry: none, or a message already in the chat of
\* the sender with the bot (identifiers are per chat, so 1 for another user)
ReplyTargets(u) ==
    IF u = ADMIN_ID THEN {NoReply} \cup {m \in MsgIds : m < nextMsgId}
    ELSE {NoReply, FirstMsgId}

\* photo_handler never reads reply_to_message, so a photo update carries a
\* reply only where it could matter: the admin replying to a forward
PhotoReplyTargets(u) ==
    IF u = ADMIN_ID THEN {NoReply} \cup DOMAIN admin_reply_map ELSE {NoReply}

\* the dispatcher before the first update: nothing fetched, nothing running
NoUpdates ==
    [inbox |-> <<>>, running |-> {}, arrived |-> 0, finished |-> [u \in Users |-> 0]]

Init ==
    /\ user_data = [u \in Users |-> EmptySession]
    /\ admin_reply_map = [m \in {} |-> NoUser]
    /\ known_users = {}
    /\ files = [u \in Users |-> {}]
    /\ nextMsgId = FirstMsgId + 1
    /\ last = Idle
    /\ sched = NoUpdates

\* ---------------------------------------------------------------- start
\* start, help_cmd and cmd_chat_prompt are the same handler up to the text
\* they send: one reply_text and nothing else
CmdSimple ==
    \E u \in Users :
        /\ last' = Handled("start", "command", u, NoReply, <<>>, {Send(u, "text", TRUE)}, FALSE, FALSE)
        /\ UNCHANGED <<user_data, admin_reply_map, known_users, files, nextMsgId>>

\* ---------------------------------------------------------- photo_handler
\* images.insert(0, p) in place of images.append(p)
PrependImage(images, p) == <<p>> \o images

\* images = context.user_data.setdefault("images", []); images.append(p)
AppendImage(images, p) == Append(images, p)

\* context.user_data.pop("style", None) at the end of the stylized branch
PopStyle(session) == [session EXCEPT !.style = NoStyle]

\* the lines a photo update can stop at, by the branch taken at line 154
PhotoOutcomes(style) ==
    IF style # NoStyle
    THEN {"fetch_fail", "notify_fail", "send_fail", "write_fail", "ok"}
    ELSE {"fetch_fail", "ok"}

\* filters.PHOTO: update.message.photo is never empty here
PhotoHandler ==
    \E u \in Users : \E reply_to \in PhotoReplyTargets(u) :
      LET session == user_data[u]
          dir == files[u]
          idx == Cardinality(ImageFiles(dir))
          path == Path(u, "img", idx + 1)
          styl_path == Path(u, "styl", idx + 1)
          style == session.style
          notice == Send(u, "stylizing", TRUE)
          saved == Send(u, "saved", TRUE)
      IN
      /\ TotalFiles + (IF style # NoStyle THEN 2 ELSE 1) <= MaxFiles
      /\ TotalImages < MaxImages
      /\ \E outcome \in PhotoOutcomes(style) :
           \/ /\ outcome = "fetch_fail"      \* get_file or download_to_drive raises
              /\ last' = Handled("photo_handler", "photo", u, reply_to, <<>>, {}, TRUE, FALSE)
              /\ UNCHANGED <<user_data, files>>
           \/ /\ outcome = "notify_fail"     \* reply_text of line 155 raises
              /\ files' = [files EXCEPT ![u] = dir \cup {path}]
              /\ last' = Handled("photo_handler", "photo", u, reply_to, <<>>,
                                 {Send(u, "stylizing", FALSE)}, TRUE, FALSE)
              /\ UNCHANGED user_data
           \/ /\ outcome = "send_fail"       \* reply_photo of line 159 raises
              /\ files' = [files EXCEPT ![u] = dir \cup {path}]
              /\ last' = Handled("photo_handler", "photo", u, reply_to, <<>>,
                                 {notice, Send(u, "stylized_photo", FALSE)}, TRUE, FALSE)
              /\ UNCHANGED user_data
           \/ /\ outcome = "write_fail"      \* open(styl_path, "wb") or write raises
              /\ files' = [files EXCEPT ![u] = dir \cup {path}]
              /\ last' = Handled("photo_handler", "photo", u, reply_to, <<>>,
                                 {notice, Send(u, "stylized_photo", TRUE)}, TRUE, FALSE)
              /\ UNCHANGED user_data
           \/ /\ outcome = "ok"
              /\ style # NoStyle
              /\ files' = [files EXCEPT ![u] = dir \cup {path, styl_path}]
              /\ user_data' = [user_data EXCEPT ![u] =
                    PopStyle([session EXCEPT !.images = AppendImage(session.images, styl_path)])]
              /\ last' = Handled("photo_handler", "photo", u, reply_to, <<>>,
                                 {notice, Send(u, "stylized_photo", TRUE)}, FALSE, FALSE)
           \/ /\ outcome = "ok"
              /\ style = NoStyle
              /\ files' = [files EXCEPT ![u] = dir \cup {path}]
              /\ user_data' = [user_data EXCEPT ![u] =
                    [session EXCEPT !.images = AppendImage(session.images, path)]]
              /\ last' = Handled("photo_handler", "photo", u, reply_to, <<>>, {saved}, FALSE, FALSE)
      /\ UNCHANGED <<admin_reply_map, known_users, nextMsgId>>

\* ---------------------------------------------------------------- cmd_pdf
\* "if images is None" in place of "if not images": an emptied list passes
ImagesIsNone(images) == Len(images) < 0

\* if not images
NoImages(images) == images = <<>>

\* images_to_pdf_bytes: img2pdf first, PIL as the fallback; "raise" when both fail
images_to_pdf_bytes(primary_ok, fallback_ok) ==
    IF primary_ok THEN "pdf"
    ELSE IF fallback_ok THEN "pdf"
    ELSE "raise"

CmdPdf ==
    \E u \in Users :
      LET session == user_data[u]
          images == session.images
      IN
      /\ \/ /\ NoImages(images)
            /\ last' = Handled("cmd_pdf", "command", u, NoReply, <<>>,
                               {Send(u, "no_images", TRUE)}, FALSE, FALSE)
            /\ UNCHANGED user_data
         \/ /\ ~NoImages(images)
            /\ \E primary_ok, fallback_ok, delivered \in BOOLEAN :
                 LET pdf_bytes == images_to_pdf_bytes(primary_ok, fallback_ok) IN
                 \/ /\ pdf_bytes = "raise"
                    /\ last' = Handled("cmd_pdf", "command", u, NoReply, <<>>, {}, TRUE, TRUE)
                    /\ UNCHANGED user_data
                 \/ /\ pdf_bytes # "raise"
                    /\ ~delivered                \* reply_document raises
                    /\ last' = Handled("cmd_pdf", "command", u, NoReply, <<>>,
                                       {Send(u, "images_pdf", FALSE)}, TRUE, TRUE)
                    /\ UNCHANGED user_data
                 \/ /\ pdf_bytes # "raise"
                    /\ delivered
                    /\ last' = Handled("cmd_pdf", "command", u, NoReply, <<>>,
                                       {Send(u, "images_pdf", TRUE)}, FALSE, TRUE)
                    /\ user_data' = [user_data EXCEPT ![u] = [session EXCEPT !.images = <<>>]]
      /\ UNCHANGED <<admin_reply_map, known_users, files, nextMsgId>>

\* -------------------------------------------------------------- cmd_style
\* the users that send /style: the admin administers, the other user stylizes
StyleSenders == Users \ {ADMIN_ID}

CmdStyle ==
    \E u \in StyleSenders, arg \in StyleArgs :
      LET style == Lower(arg) IN
      /\ \/ /\ arg = ""                       \* len(parts) < 2
            /\ last' = Handled("cmd_style", "command", u, NoReply, <<>>,
                               {Send(u, "style_hint", TRUE)}, FALSE, FALSE)
            /\ UNCHANGED user_data
         \/ /\ arg # ""
            /\ style \notin Styles
            /\ last' = Handled("cmd_style", "command", u, NoReply, <<>>,
                               {Send(u, "style_usage", TRUE)}, FALSE, FALSE)
            /\ UNCHANGED user_data
         \/ /\ arg # ""
            /\ style \in Styles
            /\ user_data' = [user_data EXCEPT ![u].style = style]
            /\ last' = Handled("cmd_style", "command", u, NoReply, <<>>,
                               {Send(u, "style_chosen", TRUE)}, FALSE, FALSE)
      /\ UNCHANGED <<admin_reply_map, known_users, files, nextMsgId>>

\* -------------------------------------------------------------- cmd_clear
\* what a /clear can leave in the directory: os.remove of each listed file,
\* where a removal that raises leaves its file (none, or one file, survives)
Survivors(dir) == {{}} \cup {{f} : f \in dir}

\* context.user_data["images"] = [] in place of context.user_data.clear()
ClearImagesOnly(session) == [session EXCEPT !.images = <<>>]

\* context.user_data.clear(): no key of the session is left
ClearSession(session) == EmptySession

CmdClear ==
    \E u \in Users :
      \E kept \in Survivors(files[u]) :
        /\ files' = [files EXCEPT ![u] = kept]
        /\ user_data' = [user_data EXCEPT ![u] = ClearSession(user_data[u])]
        /\ last' = Handled("cmd_clear", "command", u, NoReply, <<>>,
                           {Send(u, "cleared", TRUE)}, FALSE, FALSE)
        /\ UNCHANGED <<admin_reply_map, known_users, nextMsgId>>

\* ------------------------------------------------------ cmd_contact_admin
CmdContactAdmin ==
    \E u \in Users :
        /\ user_data' = [user_data EXCEPT ![u].awaiting_admin_msg = TRUE]
        /\ last' = Handled("cmd_contact_admin", "command", u, NoReply, <<>>,
                           {Send(u, "write_to_admin", TRUE)}, FALSE, FALSE)
        /\ UNCHANGED <<admin_reply_map, known_users, files, nextMsgId>>

\* ------------------------------------------------------------- track_user
track_user(known, uid) == known \cup {uid}

\* --------------------------------------------------- handle_admin_forward
\* admin_reply_map[sent.message_id] = sent.chat_id in place of user.id
RelayEntryToChat(map, message_id, uid) ==
    [m \in DOMAIN map \cup {message_id} |-> IF m = message_id THEN ADMIN_ID ELSE map[m]]

\* admin_reply_map[sent.message_id] = user.id
RelayEntry(map, message_id, uid) ==
    [m \in DOMAIN map \cup {message_id} |-> IF m = message_id THEN uid ELSE map[m]]

\* sent.message_id: the identifier the transport gives the delivered message
FreshMsgIds == {m \in MsgIds : m = nextMsgId}

\* the return value of handle_admin_forward (lines 231-232 and 245)
ForwardHandled(awaiting) == awaiting

\* ----------------------------------------------------- handle_admin_reply
\* admin_reply_map.get(replied_id, <the user of the newest entry>)
AdminReplyTargetNewest(map, replied_id) ==
    IF replied_id \in DOMAIN map THEN map[replied_id]
    ELSE IF DOMAIN map = {} THEN NoUser
    ELSE map[CHOOSE m \in DOMAIN map : \A k \in DOMAIN map : k <= m]

\* target = admin_reply_map.get(replied_id)
AdminReplyTarget(map, replied_id) ==
    IF replied_id \in DOMAIN map THEN map[replied_id] ELSE NoUser

\* target = admin_reply_map.pop(replied_id, None)
MapAfterPop(map, replied_id) == [m \in DOMAIN map \ {replied_id} |-> map[m]]

\* the map after admin_reply_map.get(replied_id): a lookup removes nothing
MapAfterLookup(map, replied_id) == map

\* what handle_admin_reply sends for a text message; relayed = send_message returned
AdminReplyOut(target, relayed) ==
    IF target = NoUser THEN {Send(ADMIN_ID, "no_match", TRUE)}
    ELSE IF relayed THEN {Send(target, "admin_text", TRUE), Send(ADMIN_ID, "reply_sent", TRUE)}
    ELSE {Send(target, "admin_text", FALSE)}

\* -------------------------------------------------------------- chat_text
\* openrouter_chat returns a string on every path (the completion, the
\* fallback echo or the error text), which chat_text sends with reply_text
chat_text == "chat_reply"

\* ------------------------------------------------------------ text_router
\* text_router with the awaiting_admin_msg test moved before the admin test
RouteForwardFirst(uid, reply_to, awaiting) ==
    IF awaiting THEN "handle_admin_forward"
    ELSE IF uid = ADMIN_ID /\ reply_to # NoReply THEN "handle_admin_reply"
    ELSE "chat_text"

\* the branch text_router takes (lines 297-305)
Route(uid, reply_to, awaiting) ==
    IF uid = ADMIN_ID /\ reply_to # NoReply THEN "handle_admin_reply"
    ELSE IF awaiting THEN "handle_admin_forward"
    ELSE "chat_text"

TextRouter ==
    \E u \in Users : \E reply_to \in ReplyTargets(u) :
      LET session == user_data[u]
          route == Route(u, reply_to, session.awaiting_admin_msg)
      IN
      /\ known_users' = track_user(known_users, u)
      /\ \/ /\ route = "handle_admin_reply"
            /\ \E relayed \in BOOLEAN :
                 LET target == AdminReplyTarget(admin_reply_map, reply_to) IN
                 /\ target = NoUser => relayed
                 /\ last' = Handled("text_router", "text", u, reply_to, <<"handle_admin_reply">>,
                                    AdminReplyOut(target, relayed),
                                    target # NoUser /\ ~relayed, FALSE)
                 /\ admin_reply_map' = MapAfterLookup(admin_reply_map, reply_to)
            /\ UNCHANGED <<user_data, nextMsgId>>
         \/ /\ route = "handle_admin_forward"
            /\ ForwardHandled(session.awaiting_admin_msg)
            /\ \/ /\ last' = Handled("text_router", "text", u, reply_to, <<"handle_admin_forward">>,
                                     {Send(ADMIN_ID, "forward", FALSE)}, TRUE, FALSE)
                  /\ UNCHANGED <<user_data, admin_reply_map, nextMsgId>>
               \/ \E message_id \in FreshMsgIds :
                  /\ admin_reply_map' = RelayEntry(admin_reply_map, message_id, u)
                  /\ nextMsgId' = message_id + 1
                  /\ user_data' = [user_data EXCEPT ![u].awaiting_admin_msg = FALSE]
                  /\ last' = Handled("text_router", "text", u, reply_to, <<"handle_admin_forward">>,
                                     {Send(ADMIN_ID, "forward", TRUE), Send(u, "forwarded", TRUE)},
                                     FALSE, FALSE)
         \/ /\ \/ route = "chat_text"
               \/ route = "handle_admin_forward" /\ ~ForwardHandled(session.awaiting_admin_msg)
            /\ last' = Handled("text_router", "text", u, reply_to,
                               IF route = "chat_text" THEN <<"chat_text">>
                               ELSE <<"handle_admin_forward", "chat_text">>,
                               {Send(u, chat_text, TRUE)}, FALSE, FALSE)
            /\ UNCHANGED <<user_data, admin_reply_map, nextMsgId>>
      /\ UNCHANGED files

\* ---------------------------------------------------------- cmd_broadcast
\* what the message the admin replies to carries: reply_to_message.text,
\* else reply_to_message.photo, else neither (a document, a sticker)
Contents == {"text", "photo", "neither"}

\* the name of a delivery of the loop in the record of the update
Delivery(content) == IF content = "text" THEN "broadcast_text" ELSE "broadcast_photo"

\* a guard that lets every sender through
NotAdminNever(uid) == FALSE

\* update.message.from_user.id != ADMIN_ID
NotAdmin(uid) == uid # ADMIN_ID

\* known is None in place of not known: never true after setdefault
NoKnownUsersIsNone(known) == FALSE

\* not known, for known = chat_data.setdefault("known_users", set())
NoKnownUsers(known) == known = {}

\* the users of the loop for whom send_message / send_photo was called: the
\* body of the try calls one of them unless the message has neither content
Tried(known, content) == IF content = "neither" THEN {} ELSE known

\* a loop that leaves at the first delivery that raises (users in ascending
\* order), in place of the try / except around every delivery
TriedUntilFailure(known, content, failing) ==
    IF content = "neither" THEN {}
    ELSE {uid \in known : \A v \in known \cap failing : uid <= v}

\* the try / except of lines 278-285 is inside the loop: a delivery that
\* raises is passed over and the loop goes on over list(known)
TriedDespiteFailure(known, content, failing) == Tried(known, content)

\* sent += 1 is the last statement of the try body: it runs for every user
\* whose delivery did not raise, and for every user when nothing is called
Sent(known, content, failing) ==
    Cardinality({uid \in known : uid \notin Tried(known, content) \/ uid \notin failing})

\* the replies a /broadcast update can carry: none, or the first message
BroadcastReplyTargets == {NoReply, FirstMsgId}

CmdBroadcast ==
    \E u \in Users : \E reply_to \in BroadcastReplyTargets :
      LET known == known_users
          done(out, sent, tries) ==
              [Handled("cmd_broadcast", "command", u, reply_to, <<>>, out, FALSE, FALSE)
                  EXCEPT !.sent = sent, !.tries = tries]
      IN
      /\ \/ /\ NotAdmin(u)
            /\ last' = done({Send(u, "admin_only", TRUE)}, 0, 0)
         \/ /\ ~NotAdmin(u)
            /\ NoKnownUsers(known)
            /\ last' = done({Send(u, "no_known_users", TRUE)}, 0, 0)
         \/ /\ ~NotAdmin(u)
            /\ ~NoKnownUsers(known)
            /\ reply_to = NoReply
            /\ last' = done({Send(u, "reply_needed", TRUE)}, 0, 0)
         \/ /\ ~NotAdmin(u)
            /\ ~NoKnownUsers(known)
            /\ reply_to # NoReply
            /\ \E content \in Contents : \E failing \in SUBSET Tried(known, content) :
                 LET tried == TriedDespiteFailure(known, content, failing)
                     deliveries == {Send(uid, Delivery(content), uid \notin failing) : uid \in tried}
                 IN last' = done(deliveries \cup {Send(u, "broadcast_report", TRUE)},
                                 Sent(known, content, failing), Cardinality(tried))
      /\ UNCHANGED <<user_data, admin_reply_map, known_users, files, nextMsgId>>

\* One step is one update handled from its first line to its last; the
\* dispatcher is not looked at (SpecSched below is about it).
Next ==
    \/ CmdSimple /\ UNCHANGED sched
    \/ PhotoHandler /\ UNCHANGED sched
    \/ CmdPdf /\ UNCHANGED sched
    \/ CmdStyle /\ UNCHANGED sched
    \/ CmdClear /\ UNCHANGED sched
    \/ CmdContactAdmin /\ UNCHANGED sched
    \/ TextRouter /\ UNCHANGED sched

Spec == Init /\ [][Next]_vars

\* ------------------------------------------------------------ cmd_readpdf
\* len(text) > 3000
TextLimit == 3000
\* len("No text found.")
NoTextFound == 14
\* len of the message returned when fitz cannot be imported or raises
ExtractionFailed == 75

\* lengths of "\n\n".join(pages).strip(): no text, or a text near the limit
PageTextLens == {0} \cup ((TextLimit - Margin)..(TextLimit + Margin))

\* length of the string extract_text_from_pdf returns
extract_text_from_pdf(pages_len, fitz_ok) ==
    IF ~fitz_ok THEN ExtractionFailed
    ELSE IF pages_len = 0 THEN NoTextFound
    ELSE pages_len

\* len(text) >= 3000 in place of len(text) > 3000
AsFileFromLimit(text_len) == text_len >= TextLimit

\* the test of line 194: the text goes out as extracted.txt
AsFile(text_len) == text_len > TextLimit

\* cmd_readpdf is both the /readpdf command (a command message has no
\* document) and the handler of a message with a PDF document
CmdReadpdf ==
    \E u \in Users : \E has_document \in BOOLEAN :
      LET done(shape, out, raised, text_len) ==
              [Handled("cmd_readpdf", shape, u, NoReply, <<>>, out, raised, FALSE)
                  EXCEPT !.text_len = text_len]
      IN
      /\ \/ /\ ~has_document
            /\ last' = done("command", {Send(u, "send_pdf", TRUE)}, FALSE, 0)
         \/ /\ has_document           \* get_file or download_to_drive raises
            /\ last' = done("document", {}, TRUE, 0)
         \/ /\ has_document
            /\ \E pages_len \in PageTextLens : \E fitz_ok \in BOOLEAN :
                 LET text_len == extract_text_from_pdf(pages_len, fitz_ok)
                 IN IF AsFile(text_len)
                    THEN \/ last' = done("document", {}, TRUE, text_len)   \* open or write raises
                         \/ last' = done("document", {Send(u, "extracted_file", TRUE)}, FALSE, text_len)
                    ELSE last' = done("document", {Send(u, "extracted_text", TRUE)}, FALSE, text_len)
      /\ UNCHANGED <<user_data, admin_reply_map, known_users, files, nextMsgId>>

\* The document handler alone: it reads and writes nothing of the sessions,
\* the map or the known-user set, and incoming.pdf and extracted.txt are no
\* image files, so its runs are the same in every state of the bot.
NextReadpdf == CmdReadpdf /\ UNCHANGED sched

SpecReadpdf == Init /\ [][NextReadpdf]_vars

\* The bot under text and command traffic only, /broadcast included: no photo
\* is sent, so the collections and the directories stay empty and the
\* outcomes of a broadcast can be enumerated in full.
NextRelay ==
    \/ CmdSimple /\ UNCHANGED sched
    \/ CmdPdf /\ UNCHANGED sched
    \/ CmdClear /\ UNCHANGED sched
    \/ CmdContactAdmin /\ UNCHANGED sched
    \/ TextRouter /\ UNCHANGED sched
    \/ CmdBroadcast /\ UNCHANGED sched

SpecRelay == Init /\ [][NextRelay]_vars

\* ------------------------------------------------------------- dispatcher
\* app.run_polling() puts the updates it fetches on the update queue, and the
\* application of line 308 takes them off one by one. It is built without
\* concurrent_updates and every handler is added without block=False, so the
\* coroutine of a handler is awaited to its end before the next update is
\* taken. A handler in progress is at one of its awaits (get_file, download,
\* send_message, reply_text); its reads and writes are the handler's action.
UpdateKinds == {"photo", "text", "contact_admin"}

Update(u, kind, seq) == [from |-> u, kind |-> kind, seq |-> seq]

\* the fetched update goes to the end of the update queue
Arrive ==
    /\ sched.arrived < MaxUpdates
    /\ \E u \in Users, kind \in UpdateKinds :
         sched' = [sched EXCEPT !.inbox = Append(@, Update(u, kind, sched.arrived + 1)),
                                !.arrived = @ + 1]
    /\ UNCHANGED program

\* ApplicationBuilder().concurrent_updates(True): an update is taken off the
\* queue while handlers of earlier updates are at an await
TakesNextAlways(running) == TRUE

\* the builder of line 308: the next update is taken when no handler runs
TakesNext(running) == running = {}

Dispatch ==
    /\ sched.inbox # <<>>
    /\ TakesNext(sched.running)
    /\ sched' = [sched EXCEPT !.inbox = Tail(@), !.running = @ \cup {Head(sched.inbox)}]
    /\ UNCHANGED program

\* a handler in progress runs to its last line
Finish ==
    \E t \in sched.running :
      /\ \/ t.kind = "photo" /\ PhotoHandler
         \/ t.kind = "text" /\ TextRouter
         \/ t.kind = "contact_admin" /\ CmdContactAdmin
      /\ last'.from = t.from
      /\ sched' = [sched EXCEPT !.running = @ \ {t},
                                !.finished[t.from] = IF t.seq > @ THEN t.seq ELSE @]

NextSched ==
    \/ Arrive
    \/ Dispatch
    \/ Finish

SpecSched == Init /\ [][NextSched]_vars

\* ================================================================ claims

\* C1: a non-command text message takes exactly one path of text_router, in
\* strict priority: the admin reply when the sender is the admin and the
\* message is a reply, else the admin forward when the sender's session has
\* awaiting_admin_msg, else the chat handler; whatever the outcome of the
\* path taken, no second path runs.
C1_OnePathByPriority ==
    [][last'.handler = "text_router" =>
        last'.paths =
            IF last'.from = ADMIN_ID /\ last'.reply_to # NoReply
            THEN <<"handle_admin_reply">>
            ELSE IF user_data[last'.from].awaiting_admin_msg
            THEN <<"handle_admin_forward">>
            ELSE <<"chat_text">>]_vars

\* the admin, with awaiting_admin_msg set, sent a reply: path 1 was taken
C1_Witness ==
    /\ last.handler = "text_router"
    /\ last.from = ADMIN_ID
    /\ last.paths = <<"handle_admin_reply">>
    /\ user_data[ADMIN_ID].awaiting_admin_msg

\* C2: whatever handler an update reaches (command, photo, document, text),
\* its sender is in the known-user set once the update is handled.
C2_EverySenderKnown ==
    last.handler # "none" => last.from \in known_users

\* C3: a photo whose stylization was started (the sender's style is set and
\* the "being processed" notice went out) leaves the style unset, whether the
\* stylization, the delivery and the write succeeded or not.
C3_StyleClearedByPhoto ==
    [][(/\ last'.handler = "photo_handler"
        /\ user_data[last'.from].style # NoStyle
        /\ Send(last'.from, "stylizing", TRUE) \in last'.out)
        => user_data'[last'.from].style = NoStyle]_vars

\* C4: a forward the admin chat received adds exactly one entry, keyed by the
\* identifier the transport gave the delivered message and mapping to the
\* sender; a forward that was not delivered, and any other update, leaves the
\* map as it was.
C4_OneEntryPerDeliveredForward ==
    [][IF /\ last'.handler = "text_router"
          /\ Send(ADMIN_ID, "forward", TRUE) \in last'.out
       THEN /\ nextMsgId \notin DOMAIN admin_reply_map
            /\ DOMAIN admin_reply_map' = DOMAIN admin_reply_map \cup {nextMsgId}
            /\ admin_reply_map'[nextMsgId] = last'.from
            /\ \A m \in DOMAIN admin_reply_map : admin_reply_map'[m] = admin_reply_map[m]
       ELSE admin_reply_map' = admin_reply_map]_vars

\* a forward of the other user was delivered and its entry points to that user
C4_Witness ==
    /\ last.handler = "text_router"
    /\ last.from = OtherUser
    /\ Send(ADMIN_ID, "forward", TRUE) \in last.out
    /\ \E m \in DOMAIN admin_reply_map : admin_reply_map[m] = OtherUser

\* C5: when the delivery of a forward to the admin fails, the sender gets a
\* failure message and awaiting_admin_msg stays set.
C5_FailedForwardReported ==
    (last.handler = "text_router" /\ Send(ADMIN_ID, "forward", FALSE) \in last.out)
        => /\ Send(last.from, "failure", TRUE) \in last.out
           /\ user_data[last.from].awaiting_admin_msg

C7_ReplyReachesTarget ==
    [][(/\ last'.handler \in {"text_router", "photo_handler"}
        /\ last'.from = ADMIN_ID
        /\ last'.reply_to \in DOMAIN admin_reply_map)
        => LET target == admin_reply_map[last'.reply_to]
               relayed == {o \in last'.out : o.what \in {"admin_text", "admin_photo"}}
           IN /\ relayed # {}
              /\ \A o \in relayed : o.to = target
              /\ user_data'[ADMIN_ID].images = user_data[ADMIN_ID].images]_vars

\* C8: per user, the collection changes only by one entry appended at the end
\* by a photo of that user that was stored, or by being emptied by a delivered
\* /pdf export or a /clear of that user; every stored photo appends one entry.
C8_CollectionGrowsByOne ==
    [][\A u \in Users :
        LET old == user_data[u].images
            new == user_data'[u].images
            mine == last'.from = u
            stored == mine /\ last'.handler = "photo_handler" /\ ~last'.raised
            emptied == mine /\ \/ last'.handler = "cmd_clear"
                               \/ /\ last'.handler = "cmd_pdf"
                                  /\ Send(u, "images_pdf", TRUE) \in last'.out
        IN IF stored
           THEN /\ Len(new) = Len(old) + 1
                /\ SubSeq(new, 1, Len(old)) = old
                /\ new[Len(new)] \in files'[u]
           ELSE IF emptied THEN new = <<>>
           ELSE new = old]_vars

\* a second photo was stored behind the first one
C8_Witness ==
    /\ last.handler = "photo_handler"
    /\ ~last.raised
    /\ Len(user_data[last.from].images) = 2
    /\ user_data[last.from].images[1] # user_data[last.from].images[2]

\* C9: /pdf on an empty collection does not call the conversion, sends the
\* "no images" notice and changes nothing of the session.
C9_EmptyExportDoesNothing ==
    [][(last'.handler = "cmd_pdf" /\ user_data[last'.from].images = <<>>)
        => /\ ~last'.converted
           /\ last'.out = {Send(last'.from, "no_images", TRUE)}
           /\ UNCHANGED <<user_data, files>>]_vars

\* /pdf on a collection that an earlier export or /clear emptied
C9_Witness ==
    /\ last.handler = "cmd_pdf"
    /\ ~last.converted
    /\ user_data[last.from].images = <<>>
    /\ files[last.from] # {}

\* C10: a /pdf export of a non-empty collection either delivers the document
\* and empties the collection, or sends the user a failure message and keeps
\* the collection as it was.
C10_FailedExportReported ==
    [][(last'.handler = "cmd_pdf" /\ user_data[last'.from].images # <<>>)
        => IF Send(last'.from, "images_pdf", TRUE) \in last'.out
           THEN user_data'[last'.from].images = <<>>
           ELSE /\ Send(last'.from, "failure", TRUE) \in last'.out
                /\ user_data'[last'.from].images = user_data[last'.from].images]_vars

\* the deliveries of the loop of a /broadcast, as the transport saw them
Deliveries(rec) == {o \in rec.out : o.what \in {"broadcast_text", "broadcast_photo"}}

\* C11: the count in the report of a /broadcast is the number of known users
\* the content was delivered to; a user for whom nothing was sent (the
\* delivery raised, or the replied-to message has neither text nor photo) is
\* not counted.
C11_CountIsDelivered ==
    (last.handler = "cmd_broadcast" /\ Send(last.from, "broadcast_report", TRUE) \in last.out)
        => last.sent = Cardinality({o \in Deliveries(last) : o.ok})

\* C12: in a /broadcast of a text or a photo, a delivery that fails does not
\* stop the loop: one delivery is attempted for every known user, no more,
\* whichever of them fail, and the admin gets the report.
C12_FanOutReachesAll ==
    (last.handler = "cmd_broadcast" /\ Deliveries(last) # {})
        => /\ {o.to : o \in Deliveries(last)} = known_users
           /\ last.tries = Cardinality(known_users)
           /\ Send(ADMIN_ID, "broadcast_report", TRUE) \in last.out

\* the delivery to the admin failed, the one to the other user came after it
C12_Witness ==
    /\ last.handler = "cmd_broadcast"
    /\ known_users = Users
    /\ Send(ADMIN_ID, "broadcast_text", FALSE) \in last.out
    /\ Send(OtherUser, "broadcast_text", TRUE) \in last.out

\* C13: a /broadcast of the admin while no user is known attempts no
\* delivery and reports no success: the admin gets the "no user list" notice
\* and nothing else.
C13_EmptyRegistryNoDelivery ==
    (last.handler = "cmd_broadcast" /\ last.from = ADMIN_ID /\ known_users = {})
        => /\ last.out = {Send(ADMIN_ID, "no_known_users", TRUE)}
           /\ last.tries = 0
           /\ last.sent = 0

\* the admin replied /broadcast to a message before any text was tracked
C13_Witness ==
    /\ last.handler = "cmd_broadcast"
    /\ last.from = ADMIN_ID
    /\ last.reply_to # NoReply
    /\ known_users = {}

\* C14: a /broadcast of a sender who is not the admin delivers nothing to a
\* known user; its only output is the rejection sent to the sender, with or
\* without a reply and with an empty or a non-empty known-user set.
C14_BroadcastAdminOnly ==
    (last.handler = "cmd_broadcast" /\ last.from # ADMIN_ID)
        => /\ last.out = {Send(last.from, "admin_only", TRUE)}
           /\ last.tries = 0

\* a known user who is not the admin replied /broadcast to a message
C14_Witness ==
    /\ last.handler = "cmd_broadcast"
    /\ last.from = OtherUser
    /\ last.reply_to # NoReply
    /\ known_users = Users

\* C15: the text extracted from an uploaded document goes out as a file if
\* and only if it is longer than 3000 characters and as a message otherwise;
\* never both, and one of the two whenever the handler ran to its end.
C15_FileAboveLimit ==
    (last.handler = "cmd_readpdf" /\ last.shape = "document" /\ last.text_len > 0)
        => LET as_file == Send(last.from, "extracted_file", TRUE) \in last.out
               as_text == Send(last.from, "extracted_text", TRUE) \in last.out
           IN /\ as_file => last.text_len > 3000
              /\ as_text => last.text_len <= 3000
              /\ ~(as_file /\ as_text)
              /\ ~last.raised => (as_file \/ as_text) /\ Cardinality(last.out) = 1

\* a text of exactly 3000 characters went out as a message
C15_Witness ==
    /\ last.handler = "cmd_readpdf"
    /\ last.text_len = 3000
    /\ last.out = {Send(last.from, "extracted_text", TRUE)}

\* C16: the style of a session becomes a set value only by a /style of that
\* user whose argument, lower-cased, is one of disney, pixar, anime, and it
\* becomes that value; a /style with no argument or another one sends the
\* hint and changes no session; and a photo handled as stylized uses up the
\* style it found, so that the stylized photos of a user never outnumber the
\* /style commands that were accepted.
C16_StyleOnlyByCommand ==
    [][\A u \in Users :
        LET old == user_data[u].style
            new == user_data'[u].style
            accepted == /\ last'.handler = "cmd_style"
                        /\ last'.from = u
                        /\ Send(u, "style_chosen", TRUE) \in last'.out
        IN /\ (new # NoStyle /\ new # old) => accepted /\ new \in {"disney", "pixar", "anime"}
           /\ (last'.handler = "cmd_style" /\ last'.from = u /\ ~accepted)
                => /\ user_data' = user_data
                   /\ last'.out \in {{Send(u, "style_hint", TRUE)}, {Send(u, "style_usage", TRUE)}}
           /\ (/\ last'.handler = "photo_handler"
               /\ last'.from = u
               /\ Send(u, "stylized_photo", TRUE) \in last'.out)
                => new = NoStyle]_vars

\* C17: a /clear of a user leaves that user's session with every field at its
\* default (no style, no image, not awaiting the admin message), whatever
\* files it could not remove, and leaves the session of every other user,
\* the admin reply map and the known-user set as they were.
C17_ClearResetsOwnSession ==
    [][last'.handler = "cmd_clear" =>
        /\ user_data'[last'.from] =
              [style |-> NoStyle, images |-> <<>>, awaiting_admin_msg |-> FALSE]
        /\ \A v \in Users \ {last'.from} : user_data'[v] = user_data[v]
        /\ admin_reply_map' = admin_reply_map
        /\ known_users' = known_users]_vars

\* a /clear that left a file behind, while another user has a session that is
\* not the default one and the map and the known-user set are not empty
C17_Witness ==
    /\ last.handler = "cmd_clear"
    /\ files[last.from] # {}
    /\ \E v \in Users \ {last.from} : user_data[v] # EmptySession
    /\ DOMAIN admin_reply_map # {}
    /\ known_users # {}

\* C18: the index a photo is stored under (the number of image files of the
\* user's directory plus one) names no file that is already there and no path
\* that is already in the user's collection, after any sequence of photos,
\* /style, /pdf and /clear, a /clear that could not remove a file included.
C18_FreshImagePath ==
    [][(last'.handler = "photo_handler" /\ ~(last'.raised /\ last'.out = {}))
        => LET u == last'.from
               n == Cardinality(ImageFiles(files[u])) + 1
               chosen == {Path(u, "img", n), Path(u, "styl", n)}
               images == user_data[u].images
           IN /\ chosen \cap files[u] = {}
              /\ \A i \in 1..Len(images) : images[i] \notin chosen]_vars

C19_OneHandlerInArrivalOrder ==
    LET waiting == {sched.inbox[i] : i \in DOMAIN sched.inbox} IN
    /\ \A a, b \in sched.running : a.from = b.from => a = b
    /\ \A a \in sched.running :
         /\ sched.finished[a.from] < a.seq
         /\ \A w \in waiting : w.from = a.from => a.seq < w.seq
    /\ \A w \in waiting : sched.finished[w.from] < w.seq

\* a text of the other user is in progress after an earlier update of that
\* user was handled, and a later photo of the same user waits in the queue
C19_Witness ==
    /\ \E a \in sched.running : a.from = OtherUser /\ a.kind = "text"
    /\ sched.finished[OtherUser] > 0
    /\ \E i \in DOMAIN sched.inbox :
         sched.inbox[i].from = OtherUser /\ sched.inbox[i].kind = "photo"

====
